---- MODULE Spec2Model ----
(***************************************************************************)
(* Model of the subtitle synchronizer: the upload widgets                  *)
(* (components/FileUpload.tsx), the orchestrator (App.tsx) and the         *)
(* streaming response parser generateSubtitles (services/geminiService).   *)
(*                                                                         *)
(* Text is a sequence of characters.  A JSON record of the stream is       *)
(* written with two characters: a head character, which stands for the     *)
(* text of an object up to but not including its closing brace, and the    *)
(* closing brace.  So a record can be cut in the middle by a chunk         *)
(* boundary, and a head or a brace on its own is a JSON syntax error.      *)
(***************************************************************************)
EXTENDS Integers, Sequences, FiniteSets, TLC

\* ------------------------------------------------------------------ bounds
\* Longest stream text (in characters) of one run.
MaxText == 5

\* ------------------------------------------------------------- characters
NL == "\n"
SP == " "
RB == "}"
\* Heads: the text of a JSON object without its closing brace.
Heads == {"a", "b", "m", "t"}
Chars == {NL, SP, RB} \cup Heads

\* The object a head character stands for, once closed; a JSON value is a
\* pair <<type, value>> (what typeof reports, and the value).
JSONObjectOf(h) ==
  CASE h = "a" -> [id |-> <<"number", 1>>, startTime |-> <<"string", "00:00:00,000">>,
                   endTime |-> <<"string", "00:00:01,000">>, text |-> <<"string", "Hi">>]
    [] h = "b" -> [id |-> <<"number", 2>>, startTime |-> <<"string", "00:00:01,000">>,
                   endTime |-> <<"string", "00:00:02,500">>, text |-> <<"string", "Hello">>]
    [] h = "m" -> [id |-> <<"number", 3>>, startTime |-> <<"string", "00:00:02,500">>,
                   endTime |-> <<"string", "00:00:03,000">>]
    [] h = "t" -> [id |-> <<"string", "4">>, startTime |-> <<"string", "00:00:03,000">>,
                   endTime |-> <<"string", "00:00:04,000">>, text |-> <<"string", "Bye">>]

\* Sequences over S of length lo..hi.
SeqsOf(S, lo, hi) == UNION {[1..n -> S] : n \in lo..hi}

\* ------------------------------------------------------- string primitives
IsWhitespace(c) == c \in {SP, NL}

\* String.prototype.indexOf for a one-character needle: 0-based, -1 if absent.
IndexOf(s, c) ==
  IF \E i \in 1..Len(s) : s[i] = c
    THEN (CHOOSE i \in 1..Len(s) : s[i] = c /\ \A j \in 1..(i-1) : s[j] # c) - 1
    ELSE -1

\* String.prototype.slice(from, to) and slice(from), 0-based, to exclusive.
Slice(s, from, to) == SubSeq(s, from + 1, to)
SliceFrom(s, from) == SubSeq(s, from + 1, Len(s))

\* String.prototype.trim.
RECURSIVE TrimStart(_)
TrimStart(s) ==
  IF s # <<>> /\ IsWhitespace(Head(s)) THEN TrimStart(Tail(s)) ELSE s
RECURSIVE TrimEnd(_)
TrimEnd(s) ==
  IF s # <<>> /\ IsWhitespace(s[Len(s)]) THEN TrimEnd(SubSeq(s, 1, Len(s) - 1)) ELSE s
Trim(s) == TrimEnd(TrimStart(s))

\* ------------------------------------------------------------------- JSON
\* JSON.parse: optional whitespace, a head, optional whitespace, the closing
\* brace, optional whitespace; anything else throws a SyntaxError.  The
\* result says whether it threw, and the parsed value if it did not.
SyntaxError == [threw |-> TRUE]
JSONParse(line) ==
  LET s == TrimStart(line) IN
  IF s = <<>> \/ Head(s) \notin Heads THEN SyntaxError
  ELSE LET r == TrimStart(Tail(s)) IN
       IF r = <<>> \/ Head(r) # RB THEN SyntaxError
       ELSE IF TrimStart(Tail(r)) # <<>> THEN SyntaxError
       ELSE [threw |-> FALSE, value |-> JSONObjectOf(Head(s))]

\* typeof parsed.k
TypeOfField(parsed, k) == IF k \in DOMAIN parsed THEN parsed[k][1] ELSE "undefined"

\* The "basic validation" of a parsed line.
\* (variant: the text field is not checked)
IsSubtitleBlock_NoTextCheck(parsed) ==
  /\ TypeOfField(parsed, "id") = "number"
  /\ TypeOfField(parsed, "startTime") = "string"
  /\ TypeOfField(parsed, "endTime") = "string"
IsSubtitleBlock(parsed) ==
  /\ TypeOfField(parsed, "id") = "number"
  /\ TypeOfField(parsed, "startTime") = "string"
  /\ TypeOfField(parsed, "endTime") = "string"
  /\ TypeOfField(parsed, "text") = "string"

\* What the try/catch around one extracted line does: the blocks it hands to
\* the callback (none or one), and whether an exception leaves it.  The
\* catch takes whatever JSON.parse throws, so none does.
\* (variant: the catch logs the error and throws it again)
DispatchLine_Rethrows(line) ==
  IF line # <<>>
    THEN LET parsed == JSONParse(line) IN
         IF parsed.threw THEN [blocks |-> <<>>, threw |-> TRUE]
         ELSE IF IsSubtitleBlock(parsed.value)
                THEN [blocks |-> <<parsed.value>>, threw |-> FALSE]
                ELSE [blocks |-> <<>>, threw |-> FALSE]
    ELSE [blocks |-> <<>>, threw |-> FALSE]
DispatchLine(line) ==
  IF line # <<>>
    THEN LET parsed == JSONParse(line) IN
         IF parsed.threw THEN [blocks |-> <<>>, threw |-> FALSE]
         ELSE IF IsSubtitleBlock(parsed.value)
                THEN [blocks |-> <<parsed.value>>, threw |-> FALSE]
                ELSE [blocks |-> <<>>, threw |-> FALSE]
    ELSE [blocks |-> <<>>, threw |-> FALSE]

\* The while loop over the buffer: extract the lines up to each newline, in
\* order.  The result is the remaining buffer, the blocks handed to the
\* callback, and whether an exception ended the loop.
\* (variant: the partial last line is not carried over to the next chunk)
RECURSIVE DrainLines_DropsPartial(_, _)
DrainLines_DropsPartial(buf, out) ==
  LET newlineIndex == IndexOf(buf, NL) IN
  IF newlineIndex # -1
    THEN LET line == Trim(Slice(buf, 0, newlineIndex))
             rest == SliceFrom(buf, newlineIndex + 1)
             d == DispatchLine(line) IN
         IF d.threw
           THEN [buffer |-> rest, blocks |-> out \o d.blocks, threw |-> TRUE]
           ELSE DrainLines_DropsPartial(rest, out \o d.blocks)
    ELSE [buffer |-> <<>>, blocks |-> out, threw |-> FALSE]
\* (variant: the rest of the buffer is kept trimmed)
RECURSIVE DrainLines_TrimsRest(_, _)
DrainLines_TrimsRest(buf, out) ==
  LET newlineIndex == IndexOf(buf, NL) IN
  IF newlineIndex # -1
    THEN LET line == Trim(Slice(buf, 0, newlineIndex))
             rest == SliceFrom(buf, newlineIndex + 1)
             d == DispatchLine(line) IN
         IF d.threw
           THEN [buffer |-> rest, blocks |-> out \o d.blocks, threw |-> TRUE]
           ELSE DrainLines_TrimsRest(rest, out \o d.blocks)
    ELSE [buffer |-> TrimStart(buf), blocks |-> out, threw |-> FALSE]
\* (variant: an if in place of the while, one line for each chunk)
DrainLines_OneLinePerChunk(buf, out) ==
  LET newlineIndex == IndexOf(buf, NL) IN
  IF newlineIndex # -1
    THEN LET line == Trim(Slice(buf, 0, newlineIndex))
             rest == SliceFrom(buf, newlineIndex + 1)
             d == DispatchLine(line) IN
         [buffer |-> rest, blocks |-> out \o d.blocks, threw |-> d.threw]
    ELSE [buffer |-> buf, blocks |-> out, threw |-> FALSE]
RECURSIVE DrainLines(_, _)
DrainLines(buf, out) ==
  LET newlineIndex == IndexOf(buf, NL) IN
  IF newlineIndex # -1
    THEN LET line == Trim(Slice(buf, 0, newlineIndex))
             rest == SliceFrom(buf, newlineIndex + 1)
             d == DispatchLine(line) IN
         IF d.threw
           THEN [buffer |-> rest, blocks |-> out \o d.blocks, threw |-> TRUE]
           ELSE DrainLines(rest, out \o d.blocks)
    ELSE [buffer |-> buf, blocks |-> out, threw |-> FALSE]

\* The processing of the buffer that remains when the stream has ended.
\* (variant: the remaining buffer is dropped)
FlushRemaining_NoFlush(buf) == [blocks |-> <<>>, threw |-> FALSE]
FlushRemaining(buf) ==
  IF Trim(buf) # <<>>
    THEN LET line == Trim(buf)
             parsed == JSONParse(line) IN
         IF parsed.threw THEN [blocks |-> <<>>, threw |-> FALSE]
         ELSE IF IsSubtitleBlock(parsed.value)
                THEN [blocks |-> <<parsed.value>>, threw |-> FALSE]
                ELSE [blocks |-> <<>>, threw |-> FALSE]
    ELSE [blocks |-> <<>>, threw |-> FALSE]

\* ------------------------------------------------------------ orchestrator
\* The serialized form of one block, as a sequence of text pieces.
\* A field of the block as a template literal renders it.
Interpolate(block, k) ==
  IF k \notin DOMAIN block THEN "undefined"
  ELSE IF block[k][1] = "number" THEN ToString(block[k][2])
  ELSE block[k][2]
SrtBlock(block) ==
  << Interpolate(block, "id"), NL, Interpolate(block, "startTime"), " --> ",
     Interpolate(block, "endTime"), NL, Interpolate(block, "text"), NL, NL >>

\* onProgress applied to each block in turn: setSrtContent(prev => prev + srtBlock).
\* (variant: prev => srtBlock + prev)
RECURSIVE OnProgress_Prepends(_, _)
OnProgress_Prepends(prev, blocks) ==
  IF blocks = <<>> THEN prev
  ELSE OnProgress_Prepends(SrtBlock(Head(blocks)) \o prev, Tail(blocks))
RECURSIVE OnProgress(_, _)
OnProgress(prev, blocks) ==
  IF blocks = <<>> THEN prev
  ELSE OnProgress(prev \o SrtBlock(Head(blocks)), Tail(blocks))

\* The state handleGenerateClick sets before its first await: loading on,
\* error cleared, progress 0 then 10, the "preparing" message.
Null == "null"
NoFile == "none"
Files == {"f1"}
MsgPreparing == "Preparing files..."
MsgUploading == "Uploading and analyzing audio..."
MsgGenerating == "Generating synchronized subtitles..."
MsgSuccess == "Subtitles generated successfully!"
ErrorMessage == "Failed to generate subtitles. Please check the files and try again."
ServiceError == "Failed to communicate with the AI model."

\* The accumulated text a starting run begins with: setSrtContent('').
\* (variant: the text of the run before is kept)
StartSrtContent_Keeps(prev) == prev
StartSrtContent(prev) == <<>>

\* The accumulated text after a transcript or audio file change: setSrtContent('').
FileChangeSrtContent(prev) == <<>>

\* ------------------------------------------------------------------ state
VARIABLES
  textFile, audioFile,      \* App: the selected files (NoFile for null)
  srtContent,               \* App: the accumulated subtitle text
  isLoading, loadingMessage, error, progress,   \* App
  textWidget, audioWidget,  \* FileUpload: the file each widget shows
  pc,                       \* where handleGenerateClick is suspended
  resetTimer,               \* the setTimeout of a successful run is pending
  outcome,                  \* the promise of the last generateSubtitles call
  thrown,                   \* what the run threw: the place of the failure
  buffer,                   \* generateSubtitles: the line buffer
  received,                 \* the text the stream of the run has yielded; with
                            \* buffer, forgotten once the run is over (its
                            \* catch block or its delayed reset has run)
  delivered,                \* the blocks handed to onProgress by the last call
  quiet,                    \* no file handler has run since the run started
  prevRun                   \* the blocks and final text of the run before

appVars == <<textFile, audioFile, srtContent, isLoading, loadingMessage, error, progress>>
widgetVars == <<textWidget, audioWidget>>
parserVars == <<outcome, thrown, buffer, received, delivered>>
vars == <<textFile, audioFile, srtContent, isLoading, loadingMessage, error, progress,
          textWidget, audioWidget, pc, resetTimer, outcome, thrown, buffer, received,
          delivered, quiet, prevRun>>

Init ==
  /\ textFile = NoFile /\ audioFile = NoFile
  /\ srtContent = <<>>
  /\ isLoading = FALSE /\ loadingMessage = "" /\ error = Null /\ progress = 0
  /\ textWidget = NoFile /\ audioWidget = NoFile
  /\ pc = "idle" /\ resetTimer = FALSE
  /\ outcome = "none" /\ thrown = "none" /\ buffer = <<>> /\ received = <<>> /\ delivered = <<>>
  /\ quiet = FALSE /\ prevRun = <<>>

\* ---------------------------------------------------------- upload widgets
Slots == {"text", "audio"}
WidgetFile(slot) == IF slot = "text" THEN textWidget ELSE audioWidget

\* handleTextFileChange / handleAudioFileChange
HandleFileChange(slot, file) ==
  /\ IF slot = "text"
       THEN textFile' = file /\ UNCHANGED audioFile
       ELSE audioFile' = file /\ UNCHANGED textFile
  /\ srtContent' = FileChangeSrtContent(srtContent)
  /\ error' = Null
  /\ quiet' = FALSE /\ prevRun' = <<>>
  /\ UNCHANGED <<isLoading, loadingMessage, progress>>

\* FileUpload.handleFileSelect: a null selection does nothing.
\* (variant: the test of selectedFile is left out)
HandleFileSelect_NotifiesNull(slot, selectedFile) ==
  /\ IF slot = "text"
       THEN textWidget' = selectedFile /\ UNCHANGED audioWidget
       ELSE audioWidget' = selectedFile /\ UNCHANGED textWidget
  /\ HandleFileChange(slot, selectedFile)
HandleFileSelect(slot, selectedFile) ==
  IF selectedFile # NoFile
    THEN /\ IF slot = "text"
              THEN textWidget' = selectedFile /\ UNCHANGED audioWidget
              ELSE audioWidget' = selectedFile /\ UNCHANGED textWidget
         /\ HandleFileChange(slot, selectedFile)
    ELSE UNCHANGED <<appVars, widgetVars, quiet, prevRun>>

\* The input's onChange; the input is rendered only while the widget shows no file.
InputChange(slot, selectedFile) ==
  /\ WidgetFile(slot) = NoFile
  /\ HandleFileSelect(slot, selectedFile)
  /\ UNCHANGED <<pc, resetTimer, parserVars>>

\* handleDrop on the drop zone, rendered only while the widget shows no file.
HandleDrop(slot, files) ==
  /\ WidgetFile(slot) = NoFile
  /\ IF Len(files) > 0
       THEN HandleFileSelect(slot, files[1])
       ELSE UNCHANGED <<appVars, widgetVars, quiet, prevRun>>
  /\ UNCHANGED <<pc, resetTimer, parserVars>>

\* handleClearFile on the clear button, rendered only while the widget shows a file.
HandleClearFile(slot) ==
  /\ WidgetFile(slot) # NoFile
  /\ IF slot = "text"
       THEN textWidget' = NoFile /\ UNCHANGED audioWidget
       ELSE audioWidget' = NoFile /\ UNCHANGED textWidget
  /\ HandleFileChange(slot, NoFile)
  /\ UNCHANGED <<pc, resetTimer, parserVars>>

\* ------------------------------------------------------------ orchestrator
canGenerate == textFile # NoFile /\ audioFile # NoFile /\ ~isLoading

\* The download button is rendered.
DownloadShown == srtContent # <<>> /\ ~isLoading

\* The state the catch block of handleGenerateClick sets.
\* (variant: setProgress(0) is left out)
CatchState_KeepsProgress ==
  [error |-> ErrorMessage, isLoading |-> FALSE, loadingMessage |-> "",
   progress |-> progress]
CatchState ==
  [error |-> ErrorMessage, isLoading |-> FALSE, loadingMessage |-> "", progress |-> 0]

\* The state the delayed reset after a successful run sets.
\* (variant: setLoadingMessage('') is left out)
ResetState_KeepsMessage ==
  [isLoading |-> FALSE, loadingMessage |-> loadingMessage, progress |-> 0]
\* (variant: setIsLoading(false) is left out)
ResetState_StillLoading == [isLoading |-> TRUE, loadingMessage |-> "", progress |-> 0]
ResetState == [isLoading |-> FALSE, loadingMessage |-> "", progress |-> 0]

\* The catch block of handleGenerateClick, entered by a failure at `place`.
Catch(place) ==
  /\ thrown' = place
  /\ error' = CatchState.error
  /\ isLoading' = CatchState.isLoading
  /\ loadingMessage' = CatchState.loadingMessage
  /\ progress' = CatchState.progress
  /\ pc' = "idle"

\* handleGenerateClick up to the await of fileToText.
\* (variant: setError(null) is left out)
GenerateClick_KeepsError ==
  /\ canGenerate
  /\ isLoading' = TRUE
  /\ srtContent' = StartSrtContent(srtContent)
  /\ progress' = 10
  /\ loadingMessage' = MsgPreparing
  /\ pc' = "readText"
  /\ outcome' = "none" /\ thrown' = "none" /\ buffer' = <<>> /\ received' = <<>> /\ delivered' = <<>>
  /\ prevRun' = IF quiet /\ outcome = "resolved"
                  THEN <<[blocks |-> delivered, srt |-> srtContent]>>
                  ELSE <<>>
  /\ quiet' = TRUE
  /\ UNCHANGED <<textFile, audioFile, error, widgetVars, resetTimer>>
\* (variant: setIsLoading(true) is left out)
GenerateClick_NoLoading ==
  /\ canGenerate
  /\ error' = Null
  /\ srtContent' = StartSrtContent(srtContent)
  /\ progress' = 10
  /\ loadingMessage' = MsgPreparing
  /\ pc' = "readText"
  /\ outcome' = "none" /\ thrown' = "none" /\ buffer' = <<>> /\ received' = <<>> /\ delivered' = <<>>
  /\ prevRun' = IF quiet /\ outcome = "resolved"
                  THEN <<[blocks |-> delivered, srt |-> srtContent]>>
                  ELSE <<>>
  /\ quiet' = TRUE
  /\ UNCHANGED <<textFile, audioFile, isLoading, widgetVars, resetTimer>>
GenerateClick ==
  /\ canGenerate
  /\ isLoading' = TRUE
  /\ error' = Null
  /\ srtContent' = StartSrtContent(srtContent)
  /\ progress' = 10
  /\ loadingMessage' = MsgPreparing
  /\ pc' = "readText"
  /\ outcome' = "none" /\ thrown' = "none" /\ buffer' = <<>> /\ received' = <<>> /\ delivered' = <<>>
  /\ prevRun' = IF quiet /\ outcome = "resolved"
                  THEN <<[blocks |-> delivered, srt |-> srtContent]>>
                  ELSE <<>>
  /\ quiet' = TRUE
  /\ UNCHANGED <<textFile, audioFile, widgetVars, resetTimer>>

\* fileToText resolves: on to the await of fileToBase64.
\* (variant: setProgress(30) is left out)
ReadTextDone_SkipsProgress ==
  /\ pc = "readText"
  /\ loadingMessage' = MsgUploading
  /\ pc' = "readAudio"
  /\ UNCHANGED <<textFile, audioFile, srtContent, isLoading, error, progress,
                 widgetVars, resetTimer, parserVars, quiet, prevRun>>
ReadTextDone ==
  /\ pc = "readText"
  /\ loadingMessage' = MsgUploading
  /\ progress' = 30
  /\ pc' = "readAudio"
  /\ UNCHANGED <<textFile, audioFile, srtContent, isLoading, error, widgetVars,
                 resetTimer, parserVars, quiet, prevRun>>

\* fileToText rejects (reader.onerror).
ReadTextFail ==
  /\ pc = "readText"
  /\ Catch("readText")
  /\ UNCHANGED <<textFile, audioFile, srtContent, widgetVars, resetTimer, outcome,
                 buffer, received, delivered, quiet, prevRun>>

\* fileToBase64 resolves: generateSubtitles is called and awaits the request.
ReadAudioDone ==
  /\ pc = "readAudio"
  /\ loadingMessage' = MsgGenerating
  /\ progress' = 50
  /\ pc' = "request"
  /\ outcome' = "pending"
  /\ UNCHANGED <<textFile, audioFile, srtContent, isLoading, error, widgetVars,
                 resetTimer, thrown, buffer, received, delivered, quiet, prevRun>>

\* fileToBase64 rejects.
ReadAudioFail ==
  /\ pc = "readAudio"
  /\ Catch("readAudio")
  /\ UNCHANGED <<textFile, audioFile, srtContent, widgetVars, resetTimer, outcome,
                 buffer, received, delivered, quiet, prevRun>>

\* generateContentStream resolves with the stream: buffer = ''.
RequestDone ==
  /\ pc = "request"
  /\ pc' = "stream"
  /\ buffer' = <<>>
  /\ UNCHANGED <<appVars, widgetVars, resetTimer, outcome, thrown, received,
                 delivered, quiet, prevRun>>

\* generateContentStream rejects: generateSubtitles throws its generic error.
RequestFail ==
  /\ pc = "request"
  /\ outcome' = ServiceError
  /\ Catch("request")
  /\ UNCHANGED <<textFile, audioFile, srtContent, widgetVars, resetTimer, buffer,
                 received, delivered, quiet, prevRun>>

\* generateSubtitles throws its generic error out of its outer catch, and the
\* catch block of handleGenerateClick runs.
Rejected(place) ==
  /\ outcome' = ServiceError
  /\ Catch(place)
  /\ buffer' = <<>> /\ received' = <<>>

\* The rest of handleGenerateClick after generateSubtitles has resolved.
Resolved ==
  /\ outcome' = "resolved"
  /\ loadingMessage' = MsgSuccess
  /\ progress' = 100
  /\ resetTimer' = TRUE
  /\ pc' = "idle"

\* The stream yields a chunk: one iteration of the for-await loop.
Chunk(text) ==
  /\ pc = "stream"
  /\ LET drained == DrainLines(buffer \o text, <<>>) IN
       /\ delivered' = delivered \o drained.blocks
       /\ srtContent' = OnProgress(srtContent, drained.blocks)
       /\ IF drained.threw
            THEN Rejected("line") /\ UNCHANGED resetTimer
            ELSE /\ buffer' = drained.buffer
                 /\ received' = received \o text
                 /\ UNCHANGED <<isLoading, loadingMessage, error, progress, pc,
                                resetTimer, outcome, thrown>>
  /\ UNCHANGED <<textFile, audioFile, widgetVars, quiet, prevRun>>

\* The stream ends: the rest of the buffer is processed, generateSubtitles
\* resolves and handleGenerateClick runs on to its end.
StreamEnd ==
  /\ pc = "stream"
  /\ LET flushed == FlushRemaining(buffer) IN
       /\ delivered' = delivered \o flushed.blocks
       /\ srtContent' = OnProgress(srtContent, flushed.blocks)
       /\ IF flushed.threw
            THEN Rejected("line") /\ UNCHANGED resetTimer
            ELSE Resolved /\ UNCHANGED <<isLoading, error, thrown, buffer, received>>
  /\ UNCHANGED <<textFile, audioFile, widgetVars, quiet, prevRun>>

\* The stream throws: generateSubtitles throws its generic error.
\* (variant: the failure clears the accumulated text)
StreamFail_ClearsText ==
  /\ pc = "stream"
  /\ Rejected("stream")
  /\ srtContent' = <<>>
  /\ UNCHANGED <<textFile, audioFile, widgetVars, resetTimer, delivered, quiet,
                 prevRun>>
StreamFail ==
  /\ pc = "stream"
  /\ Rejected("stream")
  /\ UNCHANGED <<textFile, audioFile, srtContent, widgetVars, resetTimer, delivered,
                 quiet, prevRun>>

\* The callback of setTimeout, 1500 ms after a success.
TimerFire ==
  /\ resetTimer
  /\ resetTimer' = FALSE
  /\ isLoading' = ResetState.isLoading
  /\ loadingMessage' = ResetState.loadingMessage
  /\ progress' = ResetState.progress
  /\ buffer' = <<>> /\ received' = <<>>
  /\ UNCHANGED <<textFile, audioFile, srtContent, error, widgetVars, pc, outcome,
                 thrown, delivered, quiet, prevRun>>

Next ==
  \/ \E slot \in Slots, f \in Files \cup {NoFile} : InputChange(slot, f)
  \/ \E slot \in Slots, files \in SeqsOf(Files, 0, 1) : HandleDrop(slot, files)
  \/ \E slot \in Slots : HandleClearFile(slot)
  \/ GenerateClick
  \/ ReadTextDone
  \/ ReadTextFail
  \/ ReadAudioDone
  \/ ReadAudioFail
  \/ RequestDone
  \/ RequestFail
  \/ \E text \in SeqsOf(Chars, 1, MaxText - Len(received)) : Chunk(text)
  \/ StreamEnd
  \/ StreamFail
  \/ TimerFire

Spec == Init /\ [][Next]_vars

\* The event loop runs the callback of a pending setTimeout.
FairSpec == Spec /\ WF_vars(TimerFire)

\* ------------------------------------------------- the text, read as lines
\* What the claims say of a stream text, computed from the whole text by the
\* positions of its newlines.
NewlinePositions(text) == {i \in 1..Len(text) : text[i] = NL}
LineCount(text) == Cardinality(NewlinePositions(text)) + 1
\* The position of the k-th newline; Len(text) + 1 closes the last line.
NewlineAt(text, k) ==
  IF k = 0 THEN 0
  ELSE IF k > Cardinality(NewlinePositions(text)) THEN Len(text) + 1
  ELSE CHOOSE p \in NewlinePositions(text) :
         Cardinality({q \in NewlinePositions(text) : q < p}) = k - 1
LineAt(text, k) == SubSeq(text, NewlineAt(text, k - 1) + 1, NewlineAt(text, k) - 1)
LinesOf(text) == [k \in 1..LineCount(text) |-> LineAt(text, k)]

\* The text up to and including its last newline, and what follows it.
LastNewline(text) == NewlineAt(text, Cardinality(NewlinePositions(text)))
TerminatedPart(text) == SubSeq(text, 1, LastNewline(text))
UnterminatedTail(text) == SubSeq(text, LastNewline(text) + 1, Len(text))

\* A subtitle block: the four fields, id a number, the others strings.
WellTyped(block) ==
  /\ {"id", "startTime", "endTime", "text"} \subseteq DOMAIN block
  /\ block.id[1] = "number"
  /\ \A k \in {"startTime", "endTime", "text"} : block[k][1] = "string"

\* A line is a valid record when, spaces aside, it is the text of an object
\* that is a subtitle block.
WithoutSpaces(line) == SelectSeq(line, LAMBDA c : c # SP)
IsValidRecordLine(line) ==
  \E h \in Heads : WithoutSpaces(line) = <<h, RB>> /\ WellTyped(JSONObjectOf(h))
RecordOfLine(line) == JSONObjectOf(WithoutSpaces(line)[1])

RECURSIVE ValidRecordsIn(_)
ValidRecordsIn(lines) ==
  IF lines = <<>> THEN <<>>
  ELSE (IF IsValidRecordLine(Head(lines)) THEN <<RecordOfLine(Head(lines))>> ELSE <<>>)
       \o ValidRecordsIn(Tail(lines))
ValidRecordsOf(text) == ValidRecordsIn(LinesOf(text))

BlockA == JSONObjectOf("a")
BlockB == JSONObjectOf("b")

\* The stream of the run has ended and generateSubtitles has resolved.
StreamOver == outcome = "resolved" /\ resetTimer

\* ----------------------------------------------------------------- claims
\* C1: when the stream has ended, the callback has been invoked with exactly
\* the valid records of the concatenated text, each once and in stream
\* order, whatever the chunks were.
C1_ExactlyTheValidRecords == StreamOver => delivered = ValidRecordsOf(received)

C1_Witness ==
  /\ StreamOver
  /\ received = <<"b", RB, NL, "a", RB>>
  /\ delivered = <<BlockB, BlockA>>

\* C2: every block handed to the callback has the four fields rightly typed;
\* no line makes the parser throw; and the callback has run once for each
\* valid line and for no other (the newline-terminated lines while the
\* stream is open, all the lines once it has ended), so a malformed line
\* costs no later line its delivery.
C2_OnlyWellTypedBlocks ==
  /\ \A i \in 1..Len(delivered) : WellTyped(delivered[i])
  /\ thrown # "line"
  /\ pc = "stream" =>
       Len(delivered) = Cardinality({k \in 1..(LineCount(received) - 1) :
                                       IsValidRecordLine(LineAt(received, k))})
  /\ StreamOver =>
       Len(delivered) = Cardinality({k \in 1..LineCount(received) :
                                       IsValidRecordLine(LineAt(received, k))})

C2_Witness ==
  /\ StreamOver
  /\ received = <<"m", RB, NL, "a", RB>>
  /\ delivered = <<BlockA>>
  /\ error = Null /\ thrown = "none"

\* C3: at the end of the stream the unterminated rest of the text is parsed
\* and validated once: the blocks delivered are those of the terminated
\* lines followed by the final record if it is valid; and while the stream
\* is open a valid unterminated record has not been delivered.
C3_FinalRecordOnceAtEnd ==
  /\ StreamOver =>
       delivered = ValidRecordsOf(TerminatedPart(received))
                     \o (IF IsValidRecordLine(UnterminatedTail(received))
                           THEN <<RecordOfLine(UnterminatedTail(received))>>
                           ELSE <<>>)
  /\ (pc = "stream" /\ IsValidRecordLine(UnterminatedTail(received))) =>
       delivered = ValidRecordsOf(TerminatedPart(received))

C3_Witness ==
  /\ StreamOver
  /\ received = <<"a", RB, NL, "b", RB>>
  /\ buffer = <<"b", RB>>
  /\ delivered = <<BlockA, BlockB>>

\* The accumulated text of a list of blocks: nine pieces for each block (id,
\* newline, start, arrow, end, newline, text, newline, newline).
ExpectedText(blocks) ==
  [i \in 1..(9 * Len(blocks)) |->
     LET block == blocks[((i - 1) \div 9) + 1]
         j == ((i - 1) % 9) + 1 IN
     CASE j = 1 -> ToString(block.id[2])
       [] j = 3 -> block.startTime[2]
       [] j = 4 -> " --> "
       [] j = 5 -> block.endTime[2]
       [] j = 7 -> block.text[2]
       [] OTHER -> NL]

TransportFailures == {"request", "stream"}

\* C4: a transport failure, at the request or in the stream, makes
\* generateSubtitles reject with its one generic error and ends the run; the
\* failing step invokes no callback and leaves the accumulated text as it
\* was, and no callback follows the failure.
C4_TransportFailureKeepsBlocks ==
  [][ /\ (thrown = "none" /\ thrown' \in TransportFailures) =>
           /\ outcome' = ServiceError
           /\ pc' = "idle"
           /\ delivered' = delivered
           /\ srtContent' = srtContent
      /\ (thrown \in TransportFailures /\ thrown' = thrown) =>
           /\ outcome' = ServiceError
           /\ delivered' = delivered ]_vars

C4_Witness ==
  /\ thrown = "stream"
  /\ outcome = ServiceError
  /\ delivered = <<BlockA>>
  /\ srtContent = ExpectedText(<<BlockA>>)
  /\ error = ErrorMessage

\* C5: while the top-level error is shown, the download of the accumulated
\* text is not available.
C5_NoDownloadAfterError == error # Null => ~DownloadShown

\* C6: from the start of a run until the run is over (isLoading), the
\* accumulated text is the serialization of exactly the blocks the run has
\* delivered so far, in arrival order.
C6_TextIsTheRunsBlocks == isLoading => srtContent = ExpectedText(delivered)

\* C7: a failure in any phase sets, in the step that fails, the one fixed
\* error message, clears loading and the loading message and resets the
\* progress to 0.
C7_FailureEntersErrorState ==
  [][ (thrown = "none" /\ thrown' # "none") =>
        /\ error' = ErrorMessage
        /\ isLoading' = FALSE
        /\ loadingMessage' = ""
        /\ progress' = 0 ]_vars

C7_Witness ==
  /\ thrown = "readAudio"
  /\ outcome = "none"
  /\ error = ErrorMessage
  /\ ~isLoading /\ progress = 0 /\ loadingMessage = ""

\* C8: the progress takes only the fixed checkpoints and moves only along
\* 0 -> 10 -> 30 -> 50 -> 100 or back to 0; it falls only in the step that
\* fails the run or in the delayed reset after a success; the accumulated
\* text grows only in the generating phase; and 100 is set only by the step
\* in which the stream ends and generateSubtitles resolves.
C8_PhasesInOrder ==
  /\ [](progress \in {0, 10, 30, 50, 100})
  /\ [][ /\ progress' # progress =>
              \/ <<progress, progress'>> \in {<<0, 10>>, <<10, 30>>, <<30, 50>>, <<50, 100>>}
              \/ progress' = 0
         /\ progress' < progress =>
              \/ thrown = "none" /\ thrown' # "none"
              \/ progress = 100 /\ resetTimer /\ ~resetTimer'
         /\ Len(srtContent') > Len(srtContent) => progress = 50 /\ pc = "stream"
         /\ (progress' = 100 /\ progress # 100) =>
              pc = "stream" /\ outcome' = "resolved" /\ thrown' = "none" ]_vars

C8_Witness ==
  /\ progress = 100
  /\ outcome = "resolved"
  /\ delivered = <<BlockA>>
  /\ srtContent = ExpectedText(<<BlockA>>)

\* C9: while the stream is open, after each chunk the callback has run for
\* every valid record whose terminating newline has arrived: the blocks
\* delivered are the valid records of the text up to its last newline.
C9_DeliveredAtTheNewline ==
  pc = "stream" => delivered = ValidRecordsOf(TerminatedPart(received))

C9_Witness ==
  /\ pc = "stream"
  /\ received = <<"a", RB, NL, "b">>
  /\ buffer = <<"b">>
  /\ delivered = <<BlockA>>

\* C10: when two successive runs, with no file handler run since the first
\* one started, have delivered the same list of blocks, the second ends with
\* the accumulated text the first ended with.
C10_RepeatableAssembly ==
  (outcome = "resolved" /\ quiet /\ prevRun # <<>> /\ prevRun[1].blocks = delivered)
    => srtContent = prevRun[1].srt

C10_Witness ==
  /\ outcome = "resolved" /\ quiet
  /\ prevRun # <<>>
  /\ prevRun[1].blocks = delivered
  /\ delivered = <<BlockA, BlockB>>

\* C11: a step that delivers blocks changes the accumulated text only by
\* appending their serializations, in arrival order, after the text there
\* was: the earlier text is a prefix of the new one, whatever the ids are.
C11_AppendOnly ==
  [][ (pc = "stream" /\ Len(delivered') > Len(delivered)) =>
        /\ SubSeq(delivered', 1, Len(delivered)) = delivered
        /\ srtContent' = srtContent
             \o ExpectedText(SubSeq(delivered', Len(delivered) + 1, Len(delivered')))
        /\ SubSeq(srtContent', 1, Len(srtContent)) = srtContent ]_vars

\* Blocks with decreasing ids, appended in arrival order.
C11_Witness ==
  /\ StreamOver
  /\ delivered = <<BlockB, BlockA>>
  /\ srtContent = ExpectedText(<<BlockB, BlockA>>)

\* C12: the run leaves the generating phase only by a transport failure or
\* by success; when the stream ends the run is in the success phase
\* (generateSubtitles resolved, progress 100, no error), whatever its lines
\* were; and a chunk never ends the run or sets the error.
C12_LineFailuresDoNotEscalate ==
  [][ /\ (pc = "stream" /\ pc' # "stream" /\ thrown' # "stream") =>
           /\ outcome' = "resolved"
           /\ thrown' = "none"
           /\ progress' = 100
           /\ loadingMessage' = MsgSuccess
           /\ error' = Null
      /\ (pc = "stream" /\ Len(received') > Len(received)) =>
           /\ pc' = "stream"
           /\ error' = Null ]_vars

\* Every line malformed, no block delivered, and the run succeeded.
C12_Witness ==
  /\ StreamOver
  /\ received = <<"m", RB, NL, RB, "a">>
  /\ delivered = <<>>
  /\ progress = 100 /\ error = Null

\* C13: a run is in flight only while isLoading is true, and the generate
\* button is enabled only when both files are selected and no run is in
\* flight; so a click never starts a run beside another one.
C13_OneRunAtATime ==
  /\ pc # "idle" => isLoading
  /\ canGenerate => (pc = "idle" /\ ~resetTimer /\ textFile # NoFile /\ audioFile # NoFile)
  /\ isLoading => (pc # "idle" \/ resetTimer)

C13_Witness ==
  /\ pc = "stream"
  /\ isLoading
  /\ textFile # NoFile /\ audioFile # NoFile
  /\ delivered = <<BlockA>>
  /\ ~canGenerate

\* The UI is idle: not loading, progress 0, no loading message.
IdleUI == ~isLoading /\ progress = 0 /\ loadingMessage = ""

\* C14: a run that has succeeded returns the UI to idle eventually (its
\* delayed reset runs); a run that fails returns it to idle in the failing
\* step; and while the stream is open, neither ended nor failed, isLoading
\* is true and no run can be started.
C14_RunsReturnToIdle ==
  /\ (outcome = "resolved" /\ isLoading) ~> IdleUI
  /\ [][ (thrown = "none" /\ thrown' # "none") => IdleUI' ]_vars
  /\ [](pc = "stream" => (isLoading /\ ~ENABLED GenerateClick))
  /\ [][ (pc = "stream" /\ ~isLoading') => thrown' # "none" ]_vars

\* The delayed reset of a successful run has run.
C14_Witness ==
  /\ outcome = "resolved"
  /\ ~resetTimer
  /\ IdleUI
  /\ delivered = <<BlockA>>

\* C15: whenever isLoading is false the progress is 0 and the loading
\* message is empty; and while the delayed reset of a successful run is
\* pending, that run is over, isLoading is still true and no other run is in
\* flight or can be started, so the reset clears the state of no other run.
C15_IdleMeansReset ==
  /\ ~isLoading => (progress = 0 /\ loadingMessage = "")
  /\ resetTimer => /\ pc = "idle"
                   /\ outcome = "resolved"
                   /\ isLoading
                   /\ progress = 100
                   /\ ~canGenerate

\* The delayed reset is pending.
C15_Witness ==
  /\ resetTimer
  /\ pc = "idle"
  /\ isLoading
  /\ loadingMessage = MsgSuccess

\* C16: while the error is set no run is loading; the error is set only by
\* a step that clears isLoading; and a step that starts a run or changes
\* the transcript or audio file clears it.
C16_ErrorOnlyWhenIdle ==
  /\ [](error # Null => (~isLoading /\ pc = "idle" /\ ~resetTimer))
  /\ [][ /\ (error = Null /\ error' # Null) => (isLoading /\ ~isLoading')
         /\ (pc = "idle" /\ pc' # "idle") => error' = Null
         /\ (textFile' # textFile \/ audioFile' # audioFile) => error' = Null ]_vars

\* The error of a failed request is shown.
C16_Witness ==
  /\ error = ErrorMessage
  /\ thrown = "request"
  /\ ~isLoading
  /\ pc = "idle"

\* C17: each widget shows the file the orchestrator holds for its slot; an
\* empty selection or an empty drop changes nothing at all (the orchestrator
\* is not notified: its text and error stay); and a run can be started only
\* when both widgets show a file.
EmptySelection ==
  \E slot \in Slots : InputChange(slot, NoFile) \/ HandleDrop(slot, <<>>)
C17_WidgetsAgreeWithOrchestrator ==
  /\ [](textWidget = textFile /\ audioWidget = audioFile)
  /\ [](canGenerate => (textWidget # NoFile /\ audioWidget # NoFile))
  /\ [][ EmptySelection => UNCHANGED vars ]_vars

\* One widget shows a file and the other was cleared after a run.
C17_Witness ==
  /\ textWidget = "f1" /\ textFile = "f1"
  /\ audioWidget = NoFile /\ audioFile = NoFile
  /\ outcome = "resolved"

\* C18: while the stream is open, after each chunk the buffer holds no
\* newline and is the part of the received text after its last newline (the
\* whole text when none has arrived).
C18_BufferIsTheUnterminatedTail ==
  pc = "stream" =>
    /\ \A i \in 1..Len(buffer) : buffer[i] # NL
    /\ buffer = UnterminatedTail(received)

C18_Witness ==
  /\ pc = "stream"
  /\ received = <<"a", RB, NL, SP, "b">>
  /\ buffer = <<SP, "b">>

====
